---- MODULE Spec2Model ----
(***************************************************************************)
(* A model of the analysis scripts of the algorithmic-pricing repository   *)
(* (src/pythonFiles): q_matrix_init.py, boxplot.py, analyze_theta.py       *)
(* (market_size.py is the same script over other column names), trend.py   *)
(* and deviations.py.  Each script is a straight-line program over pandas  *)
(* tables; one specification per script runs it statement by statement on  *)
(* CSV contents drawn from bounded sets.                                   *)
(*                                                                         *)
(* Values.  A numeric cell is the tuple <<n>>, the missing value NaN is    *)
(* the empty tuple <<>>; a text cell is a string.  A DataFrame is a record *)
(* [columns, index, dtype, data], column oriented as in pandas: index is   *)
(* the sequence of row labels, data maps a column name to the sequence of  *)
(* its cells, dtype maps a column name to its element type.                *)
(***************************************************************************)
EXTENDS Integers, Sequences, FiniteSets, TLC

VARIABLES
    script,                          \* which script this run executes
    pc,                              \* the statement the script is at
    err,                             \* the exception that ended the script, or "none"
    \* q_matrix_init.py
    phi_randomized_uniformly, phi_zeros,
    phi_randomized_uniformly_melted, phi_zeros_melted,
    \* boxplot.py
    heap,                            \* the DataFrame objects alive in this iteration
    treatment_phi_melted, treatment_percentage_melted, treatment_data,   \* references into heap
    treatment_phi, treatment_percentage,
    condition_on_coordinative_runs,
    melt_returned,                   \* history: the value pd.melt returned for the phi table
    boxplots,                        \* the figure: its traces
    \* the loops over treatments
    treatments, t,                   \* the list and the 1-based position of the loop
    \* analyze_theta.py
    df, x, y, result, means, coordinative_runs,
    \* trend.py, deviations.py
    independent_variable_english, nash_equilibrium, fig, shown

vars == <<script, pc, err, phi_randomized_uniformly, phi_zeros,
          phi_randomized_uniformly_melted, phi_zeros_melted, heap,
          treatment_phi_melted, treatment_percentage_melted, treatment_data,
          treatment_phi, treatment_percentage, condition_on_coordinative_runs,
          melt_returned, boxplots, treatments, t, df, x, y, result, means,
          coordinative_runs,
          independent_variable_english, nash_equilibrium, fig, shown>>

qVars == <<phi_randomized_uniformly, phi_zeros,
           phi_randomized_uniformly_melted, phi_zeros_melted>>
bVars == <<heap, treatment_phi_melted, treatment_percentage_melted, treatment_data,
           treatment_phi, treatment_percentage, condition_on_coordinative_runs,
           melt_returned>>
thVars == <<df, x, y, result, means, coordinative_runs>>
trVars == <<independent_variable_english, nash_equilibrium, fig, shown>>

---------------------------------------------------------------------------
(* Bounds of the model *)

MaxRows == 2
MaxCols == 2

---------------------------------------------------------------------------
(* Values and generic helpers *)

Unset == [unset |-> TRUE]            \* a name not bound yet
None == [none |-> TRUE]              \* Python's None
NaN == <<>>
Num(n) == <<n>>
IsNaN(v) == v = NaN

Range(s) == {s[i] : i \in DOMAIN s}
Injective(s) == \A i, j \in DOMAIN s : i # j => s[i] # s[j]
SeqsUpTo(S, n) == UNION {[1..k -> S] : k \in 0..n}
RangeIndex(n) == [k \in 1..n |-> k - 1]

nrows(frame) == Len(frame.index)

---------------------------------------------------------------------------
(* pandas: read_csv and melt *)

CatNames == {"0.8", "0.9", "0.99"}
NumDtypes == {"int64", "float64"}

CatSeqs == {s \in SeqsUpTo(CatNames, MaxCols) : Injective(s)}

\* The id columns of the files: a grid of distinct alphas, or one alpha repeated
AlphaSeqs == UNION { {[r \in 1..R |-> r], [r \in 1..R |-> 1]} : R \in 0..MaxRows }

\* The cells of the files: every cell different from every other, or all cells 0
CellFills(cats, R) ==
    { [c \in Range(cats) |->
          [r \in 1..R |-> 10 * (CHOOSE j \in DOMAIN cats : cats[j] = c) + r]],
      [c \in Range(cats) |-> [r \in 1..R |-> 0]] }

\* The DataFrame read_csv returns for a file with header alpha,<cats> and one line
\* per element of ids.  A file with no data line yields object columns.
read_csv(ids, cats, dt, cells) ==
    LET cols == <<"alpha">> \o cats
        R == Len(ids)
    IN  [columns |-> cols,
         index |-> RangeIndex(R),
         dtype |-> [c \in Range(cols) |->
                      IF R = 0 THEN "object"
                      ELSE IF c = "alpha" THEN "float64" ELSE dt[c]],
         data |-> [c \in Range(cols) |->
                      IF c = "alpha" THEN [r \in 1..R |-> Num(ids[r])]
                      ELSE [r \in 1..R |-> Num(cells[c][r])]]]

WideFrames ==
    UNION { UNION { { read_csv(ids, cats, dt, cells) :
                        dt \in [Range(cats) -> NumDtypes],
                        cells \in CellFills(cats, Len(ids)) } :
                    cats \in CatSeqs } :
            ids \in AlphaSeqs }

\* numpy's common element type of the melted value columns
find_common_type(dts) ==
    IF dts = {} \/ "object" \in dts THEN "object"
    ELSE IF dts = {"int64"} THEN "int64"
    ELSE "float64"

value_vars_of(frame, id_vars) == SelectSeq(frame.columns, LAMBDA c : c # id_vars)

\* the value column first: category column by category column, rows in order
melt_value_mut(frame, value_vars) ==
    LET N == nrows(frame)
        K == Len(value_vars)
    IN  [k \in 1..(N * K) |->
            frame.data[value_vars[((k - 1) % K) + 1]][((k - 1) \div K) + 1]]

melt_value(frame, value_vars) ==
    LET N == nrows(frame)
        K == Len(value_vars)
    IN  [k \in 1..(N * K) |->
            frame.data[value_vars[((k - 1) \div N) + 1]][((k - 1) % N) + 1]]

\* pd.melt(frame, id_vars=.., var_name=.., value_name=..): the id column tiled once
\* per category column, the category names each repeated once per row, and the
\* category columns concatenated in column order.
melt(frame, id_vars, var_name, value_name) ==
    LET value_vars == value_vars_of(frame, id_vars)
        N == nrows(frame)
        K == Len(value_vars)
    IN  [columns |-> <<id_vars, var_name, value_name>>,
         index |-> RangeIndex(N * K),
         dtype |-> [c \in {id_vars, var_name, value_name} |->
                      IF c = id_vars THEN frame.dtype[id_vars]
                      ELSE IF c = var_name THEN "object"
                      ELSE find_common_type({frame.dtype[v] : v \in Range(value_vars)})],
         data |-> [c \in {id_vars, var_name, value_name} |->
                      IF c = id_vars
                        THEN [k \in 1..(N * K) |-> frame.data[id_vars][((k - 1) % N) + 1]]
                      ELSE IF c = var_name
                        THEN [k \in 1..(N * K) |-> value_vars[((k - 1) \div N) + 1]]
                      ELSE melt_value(frame, value_vars)]]

---------------------------------------------------------------------------
(* q_matrix_init.py *)

\* the second file is drawn from a few fixed contents
ZerosFrames ==
    { read_csv(<<>>, <<>>, <<>>, <<>>),
      read_csv(<<1>>, <<"0.8">>, [c \in {"0.8"} |-> "float64"], [c \in {"0.8"} |-> <<0>>]),
      read_csv(<<1, 2>>, <<"0.8", "0.9">>, [c \in {"0.8", "0.9"} |-> "int64"],
               [c \in {"0.8", "0.9"} |-> <<0, 0>>]) }

Box(yv, name) == [type |-> "box", y |-> yv, name |-> name]

\* the names of a script that is not the one running are not bound
QIdle ==
    /\ phi_randomized_uniformly = Unset /\ phi_zeros = Unset
    /\ phi_randomized_uniformly_melted = Unset /\ phi_zeros_melted = Unset
BIdle ==
    /\ heap = <<>>
    /\ treatment_phi_melted = 0 /\ treatment_percentage_melted = 0 /\ treatment_data = 0
    /\ treatment_phi = Unset /\ treatment_percentage = Unset
    /\ condition_on_coordinative_runs = FALSE
    /\ melt_returned = Unset
ThIdle ==
    /\ df = Unset /\ x = Unset /\ y = Unset /\ result = Unset /\ means = Unset
    /\ coordinative_runs = Unset
TrIdle ==
    /\ independent_variable_english = Unset /\ nash_equilibrium = Unset
    /\ fig = <<>> /\ shown = <<>>

\* the state after lines 8-9: both files read
QInit ==
    /\ script = "q_matrix_init" /\ pc = "melt_randomized"
    /\ err = "none"
    /\ phi_randomized_uniformly \in WideFrames
    /\ phi_zeros \in ZerosFrames
    /\ phi_randomized_uniformly_melted = Unset /\ phi_zeros_melted = Unset
    /\ boxplots = <<>>
    /\ treatments = <<>> /\ t = 0
    /\ BIdle /\ ThIdle /\ TrIdle

\* line 10
QMeltRandomized ==
    /\ script = "q_matrix_init" /\ pc = "melt_randomized"
    /\ phi_randomized_uniformly_melted' =
           melt(phi_randomized_uniformly, "alpha", "delta", "phi")
    /\ pc' = "melt_zeros"
    /\ UNCHANGED <<script, err, phi_randomized_uniformly, phi_zeros, phi_zeros_melted,
                   bVars, boxplots, treatments, t, thVars, trVars>>

\* line 11
QMeltZeros ==
    /\ script = "q_matrix_init" /\ pc = "melt_zeros"
    /\ phi_zeros_melted' = melt(phi_zeros, "alpha", "delta", "phi")
    /\ pc' = "boxes"
    /\ UNCHANGED <<script, err, phi_randomized_uniformly, phi_zeros,
                   phi_randomized_uniformly_melted,
                   bVars, boxplots, treatments, t, thVars, trVars>>

\* lines 13-29: the figure and its two box traces
QAddTraces ==
    /\ script = "q_matrix_init" /\ pc = "boxes"
    /\ boxplots' = << Box(phi_randomized_uniformly_melted.data["phi"],
                          "Nach Calvano et al. (2020)"),
                      Box(phi_zeros_melted.data["phi"], "Nach Klein (im Druck)") >>
    /\ pc' = "show"
    /\ UNCHANGED <<script, err, qVars, bVars, treatments, t, thVars, trVars>>

\* lines 30-31
QShow ==
    /\ script = "q_matrix_init" /\ pc = "show"
    /\ pc' = "done"
    /\ UNCHANGED <<script, err, qVars, bVars, boxplots, treatments, t, thVars, trVars>>

QNext == QMeltRandomized \/ QMeltZeros \/ QAddTraces \/ QShow

SpecMelt == QInit /\ [][QNext]_vars

---------------------------------------------------------------------------
(* Re-widening a long table, as the round-trip law words it: the rows are     *)
(* grouped by category, one column per category in order of first appearance; *)
(* the id column is the ids of the first group.                               *)

RECURSIVE first_appearance(_)
first_appearance(s) ==
    IF s = <<>> THEN <<>>
    ELSE LET rest == first_appearance(SubSeq(s, 1, Len(s) - 1))
         IN  IF s[Len(s)] \in Range(rest) THEN rest ELSE Append(rest, s[Len(s)])

positions_where(s, v) == SelectSeq([k \in 1..Len(s) |-> k], LAMBDA k : s[k] = v)

widen(long) ==
    LET idc == long.columns[1]
        varc == long.columns[2]
        valc == long.columns[3]
        cats == first_appearance(long.data[varc])
        rows_of(c) == positions_where(long.data[varc], c)
        R == IF cats = <<>> THEN 0 ELSE Len(rows_of(cats[1]))
        cols == <<idc>> \o cats
    IN  [columns |-> cols,
         index |-> RangeIndex(R),
         dtype |-> [c \in Range(cols) |->
                      IF c = idc THEN long.dtype[idc] ELSE long.dtype[valc]],
         data |-> [c \in Range(cols) |->
                      IF c = idc
                        THEN [r \in 1..R |-> long.data[idc][rows_of(cats[1])[r]]]
                        ELSE [r \in 1..Len(rows_of(c)) |-> long.data[valc][rows_of(c)[r]]]]]

category_columns(frame) == value_vars_of(frame, "alpha")
one_dtype(frame) ==
    \A a, b \in Range(category_columns(frame)) : frame.dtype[a] = frame.dtype[b]

QMelted == script = "q_matrix_init" /\ pc \in {"melt_zeros", "boxes", "show", "done"}

\* C3: melt returns R*C rows; the row at position c*R + r (0-based) holds the id of
\* input row r, the name of the c-th category column and the cell at (r, c); with no
\* category column the result has zero rows and three columns.
C3_MeltShapeAndOrder ==
    QMelted =>
        LET wide == phi_randomized_uniformly
            long == phi_randomized_uniformly_melted
            cats == category_columns(wide)
            R == nrows(wide)
            C == Len(cats)
        IN  /\ long.columns = <<"alpha", "delta", "phi">>
            /\ nrows(long) = R * C
            /\ \A c \in DOMAIN long.data : Len(long.data[c]) = R * C
            /\ \A c \in 0..(C - 1) : \A r \in 0..(R - 1) :
                  /\ long.data["alpha"][c * R + r + 1] = wide.data["alpha"][r + 1]
                  /\ long.data["delta"][c * R + r + 1] = cats[c + 1]
                  /\ long.data["phi"][c * R + r + 1] = wide.data[cats[c + 1]][r + 1]

C3_Witness ==
    /\ QMelted
    /\ nrows(phi_randomized_uniformly) = 2
    /\ Len(category_columns(phi_randomized_uniformly)) = 2
    /\ phi_randomized_uniformly.data["alpha"] = <<Num(1), Num(2)>>
    /\ phi_randomized_uniformly_melted.data["phi"][2] # phi_randomized_uniformly_melted.data["phi"][3]

\* C4 as claimed: melting any wide table and re-widening the result gives back the
\* wide table.
C4_RoundTripEveryTable ==
    QMelted => widen(phi_randomized_uniformly_melted) = phi_randomized_uniformly

\* C4 as amended: the round trip gives back every wide table that has at least one row
\* and at least one category column and whose category columns share one element type.
C4_RoundTrip ==
    (/\ QMelted
     /\ nrows(phi_randomized_uniformly) >= 1
     /\ Len(category_columns(phi_randomized_uniformly)) >= 1
     /\ one_dtype(phi_randomized_uniformly))
    => widen(phi_randomized_uniformly_melted) = phi_randomized_uniformly

C4_Witness ==
    /\ QMelted
    /\ nrows(phi_randomized_uniformly) = 2
    /\ Len(category_columns(phi_randomized_uniformly)) = 2
    /\ one_dtype(phi_randomized_uniformly)
    /\ phi_randomized_uniformly.data["alpha"] = <<Num(1), Num(1)>>
    /\ widen(phi_randomized_uniformly_melted) = phi_randomized_uniformly

---------------------------------------------------------------------------
(* pandas: column access, column assignment, boolean-mask selection *)

Series(frame, c) ==
    [index |-> frame.index, values |-> frame.data[c], dtype |-> frame.dtype[c]]

\* series.reindex(index): the value carried by each label of index, NaN for a label
\* the series does not carry
reindex_mut(series, index) ==
    [k \in 1..Len(index) |->
        IF \E j \in DOMAIN series.index : series.index[j] = index[k]
          THEN series.values[CHOOSE j \in DOMAIN series.index : series.index[j] = index[k]]
          ELSE Num(0)]

reindex(series, index) ==
    [k \in 1..Len(index) |->
        IF \E j \in DOMAIN series.index : series.index[j] = index[k]
          THEN series.values[CHOOSE j \in DOMAIN series.index : series.index[j] = index[k]]
          ELSE NaN]

\* frame[c] = series: the series is aligned on the frame's row labels and stored as
\* column c, a new last column when the frame has no column c
setitem(frame, c, series) ==
    LET aligned == reindex(series, frame.index)
        cols == IF c \in Range(frame.columns) THEN frame.columns
                ELSE Append(frame.columns, c)
        missing == \E k \in DOMAIN aligned : IsNaN(aligned[k])
    IN  [columns |-> cols,
         index |-> frame.index,
         dtype |-> [d \in Range(cols) |->
                      IF d # c THEN frame.dtype[d]
                      ELSE IF missing /\ series.dtype = "int64" THEN "float64"
                      ELSE series.dtype],
         data |-> [d \in Range(cols) |-> IF d # c THEN frame.data[d] ELSE aligned]]

\* series > 0, element by element; a comparison with NaN is False
gt_zero_mut(series) ==
    [k \in DOMAIN series.values |->
        IsNaN(series.values[k]) \/ series.values[k][1] > 0]

gt_zero(series) ==
    [k \in DOMAIN series.values |->
        ~IsNaN(series.values[k]) /\ series.values[k][1] > 0]

\* frame[mask]: a new frame of the rows whose mask is True, labels kept
getitem_mask(frame, mask) ==
    LET keep == SelectSeq([k \in 1..nrows(frame) |-> k], LAMBDA k : mask[k])
    IN  [columns |-> frame.columns,
         index |-> [j \in DOMAIN keep |-> frame.index[keep[j]]],
         dtype |-> frame.dtype,
         data |-> [c \in DOMAIN frame.data |->
                      [j \in DOMAIN keep |-> frame.data[c][keep[j]]]]]

\* Python's s[a:b] on a sequence, 0 <= a <= b
slice(s, a, b) == SubSeq(s, a + 1, IF b < Len(s) THEN b ELSE Len(s))

---------------------------------------------------------------------------
(* boxplot.py *)

TreatmentsWithSize ==
    << <<"S", "I", "M", "-", "P", "-", "2">>, <<"S", "I", "M", "-", "P", "-", "3">>,
       <<"S", "I", "M", "-", "Q", "-", "2">>, <<"S", "I", "M", "-", "Q", "-", "3">>,
       <<"S", "E", "Q", "-", "P", "-", "2">>, <<"S", "E", "Q", "-", "P", "-", "3">>,
       <<"S", "E", "Q", "-", "Q", "-", "2">>, <<"S", "E", "Q", "-", "Q", "-", "3">> >>

\* the _phi.csv files: an alpha grid, float cells all different
PhiFrames ==
    UNION { { read_csv([r \in 1..R |-> r], cats, [c \in Range(cats) |-> "float64"],
                       [c \in Range(cats) |->
                          [r \in 1..R |-> 10 * (CHOOSE j \in DOMAIN cats : cats[j] = c) + r]]) :
              cats \in {s \in CatSeqs : \A j \in DOMAIN s : s[j] # "0.99"} } :
            R \in 0..MaxRows }

\* the _percentage.csv files: cells all 0, all 50, 50 and 0 alternating, or a gap (an
\* empty field, read as NaN) and 50 alternating
PercentageFills(cats, R) ==
    { [c \in Range(cats) |-> [r \in 1..R |-> Num(0)]],
      [c \in Range(cats) |-> [r \in 1..R |-> Num(50)]],
      [c \in Range(cats) |-> [r \in 1..R |-> IF r % 2 = 1 THEN Num(50) ELSE Num(0)]],
      [c \in Range(cats) |-> [r \in 1..R |-> IF r % 2 = 1 THEN NaN ELSE Num(50)]] }

read_csv_cells(ids, cats, cells) ==
    LET cols == <<"alpha">> \o cats
        R == Len(ids)
    IN  [columns |-> cols,
         index |-> RangeIndex(R),
         dtype |-> [c \in Range(cols) |-> IF R = 0 THEN "object" ELSE "float64"],
         data |-> [c \in Range(cols) |->
                      IF c = "alpha" THEN [r \in 1..R |-> Num(ids[r])] ELSE cells[c]]]

PercentageFrames ==
    UNION { UNION { { read_csv_cells([r \in 1..R |-> r], cats, cells) :
                        cells \in PercentageFills(cats, R) } :
                    cats \in CatSeqs } :
            R \in 0..MaxRows }

\* the result of pd.melt or of a selection from the object ref (0: from none): a new
\* object, and the reference to it
new_object_mut(h, ref, frame) ==
    IF ref \in DOMAIN h THEN [heap |-> [h EXCEPT ![ref] = frame], ref |-> ref]
    ELSE [heap |-> Append(h, frame), ref |-> Len(h) + 1]

new_object(h, ref, frame) == [heap |-> Append(h, frame), ref |-> Len(h) + 1]

BInit ==
    /\ script = "boxplot" /\ pc = "read_phi"
    /\ err = "none"
    /\ heap = <<>>
    /\ treatment_phi_melted = 0 /\ treatment_percentage_melted = 0 /\ treatment_data = 0
    /\ treatment_phi = Unset /\ treatment_percentage = Unset
    /\ condition_on_coordinative_runs \in BOOLEAN
    /\ melt_returned = Unset
    /\ boxplots = <<>>
    /\ treatments = TreatmentsWithSize /\ t = 1
    /\ QIdle /\ ThIdle /\ TrIdle

BFrame == <<script, err, qVars, condition_on_coordinative_runs, treatments, thVars, trVars>>

\* lines 16-17
BReadPhi ==
    /\ script = "boxplot" /\ pc = "read_phi" /\ t <= Len(treatments)
    /\ treatment_phi' \in PhiFrames
    /\ pc' = "melt_phi"
    /\ UNCHANGED <<BFrame, boxplots, t, heap, treatment_phi_melted,
                   treatment_percentage_melted, treatment_data, treatment_percentage,
                   melt_returned>>

\* line 18
BMeltPhi ==
    /\ script = "boxplot" /\ pc = "melt_phi"
    /\ LET made == new_object(heap, 0, melt(treatment_phi, "alpha", "delta", "phi"))
       IN  /\ heap' = made.heap
           /\ treatment_phi_melted' = made.ref
           /\ melt_returned' = made.heap[made.ref]
    /\ pc' = "read_percentage"
    /\ UNCHANGED <<BFrame, boxplots, t, treatment_phi, treatment_percentage,
                   treatment_percentage_melted, treatment_data>>

\* line 19
BReadPercentage ==
    /\ script = "boxplot" /\ pc = "read_percentage"
    /\ treatment_percentage' \in PercentageFrames
    /\ pc' = "melt_percentage"
    /\ UNCHANGED <<BFrame, boxplots, t, heap, treatment_phi, treatment_phi_melted,
                   treatment_percentage_melted, treatment_data, melt_returned>>

\* lines 20-21
BMeltPercentage ==
    /\ script = "boxplot" /\ pc = "melt_percentage"
    /\ LET made == new_object(heap, 0,
                              melt(treatment_percentage, "alpha", "delta", "percentage"))
       IN  /\ heap' = made.heap
           /\ treatment_percentage_melted' = made.ref
    /\ pc' = "bind"
    /\ UNCHANGED <<BFrame, boxplots, t, treatment_phi, treatment_percentage,
                   treatment_phi_melted, treatment_data, melt_returned>>

\* line 22: a second name for the melted phi table
BBind ==
    /\ script = "boxplot" /\ pc = "bind"
    /\ treatment_data' = treatment_phi_melted
    /\ pc' = "attach"
    /\ UNCHANGED <<BFrame, boxplots, t, heap, treatment_phi, treatment_percentage,
                   treatment_phi_melted, treatment_percentage_melted, melt_returned>>

\* line 23
BAttach ==
    /\ script = "boxplot" /\ pc = "attach"
    /\ heap' = [heap EXCEPT ![treatment_data] =
                   setitem(@, "percentage",
                           Series(heap[treatment_percentage_melted], "percentage"))]
    /\ pc' = "filter"
    /\ UNCHANGED <<BFrame, boxplots, t, treatment_phi, treatment_percentage,
                   treatment_phi_melted, treatment_percentage_melted, treatment_data,
                   melt_returned>>

\* lines 25-26
BFilter ==
    /\ script = "boxplot" /\ pc = "filter"
    /\ IF condition_on_coordinative_runs
         THEN LET made == new_object(heap, treatment_data,
                              getitem_mask(heap[treatment_data],
                                           gt_zero(Series(heap[treatment_data], "percentage"))))
              IN  heap' = made.heap /\ treatment_data' = made.ref
         ELSE UNCHANGED <<heap, treatment_data>>
    /\ pc' = "trace"
    /\ UNCHANGED <<BFrame, boxplots, t, treatment_phi, treatment_percentage,
                   treatment_phi_melted, treatment_percentage_melted, melt_returned>>

\* lines 28-35: the box of this treatment, named by the first seven characters
BAddTrace ==
    /\ script = "boxplot" /\ pc = "trace"
    /\ boxplots' = Append(boxplots, slice(treatments[t], 0, 7))
    /\ pc' = "next"
    /\ UNCHANGED <<BFrame, bVars, t>>

\* back to line 16: the names of this iteration are bound anew before they are read
\* again, and its objects are no longer reachable
BLoop ==
    /\ script = "boxplot" /\ pc = "next"
    /\ t' = t + 1
    /\ heap' = <<>>
    /\ treatment_phi_melted' = 0 /\ treatment_percentage_melted' = 0 /\ treatment_data' = 0
    /\ treatment_phi' = Unset /\ treatment_percentage' = Unset /\ melt_returned' = Unset
    /\ pc' = "read_phi"
    /\ UNCHANGED <<BFrame, boxplots>>

\* lines 37-38
BShow ==
    /\ script = "boxplot" /\ pc = "read_phi" /\ t > Len(treatments)
    /\ pc' = "done"
    /\ UNCHANGED <<BFrame, bVars, boxplots, t>>

BNext ==
    \/ BReadPhi \/ BMeltPhi \/ BReadPercentage \/ BMeltPercentage
    \/ BBind \/ BAttach \/ BFilter \/ BAddTrace \/ BLoop \/ BShow

SpecBoxplot == BInit /\ [][BNext]_vars

---------------------------------------------------------------------------
(* Claims about boxplot.py *)

\* the rows of a frame, each with its label and its cells by column name
rows(frame) ==
    [k \in 1..nrows(frame) |->
        [label |-> frame.index[k], cells |-> [c \in DOMAIN frame.data |-> frame.data[c][k]]]]

\* row k of base has a row of other with the same (alpha, delta)
has_match(base, k, other) ==
    \E j \in 1..nrows(other) :
        /\ other.data["alpha"][j] = base.data["alpha"][k]
        /\ other.data["delta"][j] = base.data["delta"][k]

BAttached == script = "boxplot" /\ pc = "filter"
BFiltered == script = "boxplot" /\ pc \in {"trace", "next"}

positive_percentage(row) ==
    ~IsNaN(row.cells["percentage"]) /\ row.cells["percentage"][1] > 0

\* C8: the filter returns a table with the columns of its input and exactly the input
\* rows whose percentage is greater than 0, in their order; from an input without rows
\* it returns a table without rows and the same columns.
C8_FilterKeepsMatchingRowsInOrder ==
    (BFiltered /\ condition_on_coordinative_runs) =>
        LET input == heap[treatment_phi_melted]
            output == heap[treatment_data]
        IN  /\ output.columns = input.columns
            /\ output.dtype = input.dtype
            /\ DOMAIN output.data = DOMAIN input.data
            /\ rows(output) = SelectSeq(rows(input), positive_percentage)
            /\ nrows(input) = 0 => nrows(output) = 0

C8_Witness ==
    /\ BFiltered /\ condition_on_coordinative_runs
    /\ nrows(heap[treatment_phi_melted]) = 4
    /\ heap[treatment_data].index = <<1, 3>>
    /\ IsNaN(heap[treatment_phi_melted].data["percentage"][1])

---------------------------------------------------------------------------
(* numpy / statsmodels: means and ordinary least squares, in exact arithmetic. *)
(* A rational is the pair <<numerator, denominator>> with denominator > 0.    *)

Rat(n, d) == IF d < 0 THEN <<0 - n, 0 - d>> ELSE <<n, d>>
RatIs(q, n) == q # NaN /\ q[1] = n * q[2]

RECURSIVE Sum(_)
Sum(s) == IF s = <<>> THEN 0 ELSE s[Len(s)] + Sum(SubSeq(s, 1, Len(s) - 1))

numbers(values) == [k \in DOMAIN values |-> values[k][1]]
products(a, b) == [k \in DOMAIN a |-> a[k] * b[k]]

\* df.get(c): the column, or None when the table has no column c
get_mut(frame, c) ==
    IF c \in Range(frame.columns) THEN Series(frame, c)
    ELSE [index |-> <<>>, values |-> <<>>, dtype |-> "object"]

get(frame, c) == IF c \in Range(frame.columns) THEN Series(frame, c) ELSE None

\* the mean of no value
mean_of_none_mut == Rat(0, 1)

mean_of_none == NaN

\* np.mean(series), that is series.mean(): NaN cells are skipped
mean(series) ==
    LET present == SelectSeq(series.values, LAMBDA v : ~IsNaN(v))
    IN  IF present = <<>> THEN mean_of_none
        ELSE Rat(Sum(numbers(present)), Len(present))

\* sm.add_constant(series): a column of ones is put in front, unless the series is
\* itself constant and not zero (has_constant='skip')
is_constant(xs) == xs # <<>> /\ (\A k \in DOMAIN xs : xs[k] = xs[1]) /\ xs[1] # 0

add_constant(series, name) ==
    LET xs == numbers(series.values)
        cols == IF is_constant(xs) THEN <<name>> ELSE <<"const", name>>
    IN  [columns |-> cols,
         index |-> series.index,
         data |-> [c \in Range(cols) |->
                      IF c = name THEN xs ELSE [k \in DOMAIN xs |-> 1]]]

\* the observations OLS cannot work with
too_few_mut(n) == n < 2

too_few(n) == n = 0

\* the numerator of the slope of the least-squares line
slope_numerator_mut(n, sx, sy, sxy) == sxy

slope_numerator(n, sx, sy, sxy) == n * sxy - sx * sy

\* sm.OLS(endog, exog).fit(): the least-squares parameters (the one of least norm
\* when the columns are dependent) and R2 = 1 - ssr / centered_tss
OLS_fit(endog, exog, name) ==
    LET ys == numbers(endog.values)
        xs == exog.data[name]
        n == Len(xs)
        sx == Sum(xs)
        sy == Sum(ys)
        sxx == Sum(products(xs, xs))
        sxy == Sum(products(xs, ys))
        syy == Sum(products(ys, ys))
        with_const == "const" \in Range(exog.columns)
        varying == \E i, j \in DOMAIN xs : xs[i] # xs[j]
        \* intercept A / D and slope B / D
        D == IF with_const THEN (IF varying THEN n * sxx - sx * sx ELSE n) ELSE sxx
        A == IF with_const THEN (IF varying THEN sy * sxx - sx * sxy ELSE sy) ELSE 0
        B == IF with_const THEN (IF varying THEN slope_numerator(n, sx, sy, sxy) ELSE 0)
             ELSE sxy
        S == Sum([k \in DOMAIN xs |-> (D * ys[k] - A - B * xs[k]) * (D * ys[k] - A - B * xs[k])])
        T == n * syy - sy * sy
    IN  IF too_few(n) THEN [error |-> "ValueError"]
        ELSE [error |-> "none",
              nobs |-> n,
              params |-> [c \in Range(exog.columns) |->
                             IF c = "const" THEN Rat(A, D) ELSE Rat(B, D)],
              rsquared |-> IF T = 0 THEN NaN ELSE Rat(D * D * T - S * n, D * D * T)]

---------------------------------------------------------------------------
(* analyze_theta.py: the regression loop (lines 57-67) and the loop of the means  *)
(* (lines 69-78).  market_size.py is the same code over the column MARKET SIZE.   *)

MaxObs == 3
DegreeVals == {0, 1, 2, 3}

THETA == "THETA"
DEGREE == "DEGREE OF TACIT COLLUSION"
PERCENTAGE == "PERCENTAGE OF COORDINATION"

\* the THETA column: a grid from 0, the value 1 repeated, or zeros
ThetaFills(n) == { [r \in 1..n |-> r - 1], [r \in 1..n |-> 1], [r \in 1..n |-> 0] }
\* the PERCENTAGE column: zeros, the value 50 repeated, or 50 and 0 alternating
CoordinationFills(n) ==
    { [r \in 1..n |-> 0], [r \in 1..n |-> 50], [r \in 1..n |-> IF r % 2 = 1 THEN 50 ELSE 0] }

read_csv_theta(n, th, dg, pct) ==
    [columns |-> <<THETA, DEGREE, PERCENTAGE>>,
     index |-> RangeIndex(n),
     dtype |-> [c \in {THETA, DEGREE, PERCENTAGE} |-> IF n = 0 THEN "object" ELSE "float64"],
     data |-> [c \in {THETA, DEGREE, PERCENTAGE} |->
                  IF c = THETA THEN [r \in 1..n |-> Num(th[r])]
                  ELSE IF c = DEGREE THEN [r \in 1..n |-> Num(dg[r])]
                  ELSE [r \in 1..n |-> Num(pct[r])]]]

ThetaFrames ==
    UNION { { read_csv_theta(n, th, dg, pct) :
                th \in ThetaFills(n), dg \in [1..n -> DegreeVals],
                pct \in CoordinationFills(n) } :
            n \in 0..MaxObs }

ThInit ==
    /\ script = "analyze_theta" /\ pc = "r_read"
    /\ err = "none"
    /\ treatments = TreatmentsWithSize /\ t = 1
    /\ boxplots = <<>>
    /\ ThIdle /\ QIdle /\ BIdle /\ TrIdle

ThFrame == <<script, qVars, bVars, boxplots, treatments, trVars>>

\* lines 58-59
RRead ==
    /\ script = "analyze_theta" /\ pc = "r_read" /\ t <= Len(treatments)
    /\ df' \in ThetaFrames
    /\ pc' = "r_get"
    /\ UNCHANGED <<ThFrame, err, t, x, y, result, means, coordinative_runs>>

\* lines 61-62
RGet ==
    /\ script = "analyze_theta" /\ pc = "r_get"
    /\ x' = get(df, THETA)
    /\ y' = get(df, DEGREE)
    /\ pc' = "r_add_constant"
    /\ UNCHANGED <<ThFrame, err, t, df, result, means, coordinative_runs>>

\* line 64
RAddConstant ==
    /\ script = "analyze_theta" /\ pc = "r_add_constant"
    /\ x' = add_constant(x, THETA)
    /\ pc' = "r_fit"
    /\ UNCHANGED <<ThFrame, err, t, df, y, result, means, coordinative_runs>>

\* line 65
RFit ==
    /\ script = "analyze_theta" /\ pc = "r_fit"
    /\ LET fit == OLS_fit(y, x, THETA)
       IN  IF fit.error = "none"
             THEN result' = fit /\ pc' = "r_print" /\ err' = err
             ELSE result' = result /\ pc' = "halted" /\ err' = fit.error
    /\ UNCHANGED <<ThFrame, t, df, x, y, means, coordinative_runs>>

\* lines 66-67, and back to line 58: the names of this iteration are bound anew
\* before they are read again
RPrint ==
    /\ script = "analyze_theta" /\ pc = "r_print"
    /\ t' = t + 1
    /\ df' = Unset /\ x' = Unset /\ y' = Unset /\ result' = Unset
    /\ pc' = "r_read"
    /\ UNCHANGED <<ThFrame, err, means, coordinative_runs>>

\* line 70, first time round
MStart ==
    /\ script = "analyze_theta" /\ pc = "r_read" /\ t > Len(treatments)
    /\ t' = 1
    /\ pc' = "m_read"
    /\ UNCHANGED <<ThFrame, err, thVars>>

\* lines 70-71
MRead ==
    /\ script = "analyze_theta" /\ pc = "m_read" /\ t <= Len(treatments)
    /\ df' \in ThetaFrames
    /\ pc' = "m_means"
    /\ UNCHANGED <<ThFrame, err, t, x, y, result, means, coordinative_runs>>

\* lines 73-75
MMeans ==
    /\ script = "analyze_theta" /\ pc = "m_means"
    /\ means' = [degree |-> mean(get(df, DEGREE)), percentage |-> mean(get(df, PERCENTAGE))]
    /\ pc' = "m_filter"
    /\ UNCHANGED <<ThFrame, err, t, df, x, y, result, coordinative_runs>>

\* line 77
MFilter ==
    /\ script = "analyze_theta" /\ pc = "m_filter"
    /\ coordinative_runs' = getitem_mask(df, gt_zero(Series(df, PERCENTAGE)))
    /\ pc' = "m_conditional"
    /\ UNCHANGED <<ThFrame, err, t, df, x, y, result, means>>

\* line 78
MConditional ==
    /\ script = "analyze_theta" /\ pc = "m_conditional"
    /\ means' = [degree |-> means.degree, percentage |-> means.percentage,
                 conditional |-> mean(get(coordinative_runs, DEGREE))]
    /\ pc' = "m_next"
    /\ UNCHANGED <<ThFrame, err, t, df, x, y, result, coordinative_runs>>

\* back to line 70
MNext ==
    /\ script = "analyze_theta" /\ pc = "m_next"
    /\ t' = t + 1
    /\ df' = Unset /\ means' = Unset /\ coordinative_runs' = Unset
    /\ pc' = "m_read"
    /\ UNCHANGED <<ThFrame, err, x, y, result>>

MEnd ==
    /\ script = "analyze_theta" /\ pc = "m_read" /\ t > Len(treatments)
    /\ pc' = "done"
    /\ UNCHANGED <<ThFrame, err, t, thVars>>

ThNext ==
    \/ RRead \/ RGet \/ RAddConstant \/ RFit \/ RPrint
    \/ MStart \/ MRead \/ MMeans \/ MFilter \/ MConditional \/ MNext \/ MEnd

SpecTheta == ThInit /\ [][ThNext]_vars

---------------------------------------------------------------------------
(* Claims about analyze_theta.py *)

RFitted == script = "analyze_theta" /\ pc = "r_print"
MPrinted == script = "analyze_theta" /\ pc = "m_next"

thetas == numbers(df.data[THETA])
degrees == numbers(df.data[DEGREE])
coordinations == numbers(df.data[PERCENTAGE])

\* the rows of df with PERCENTAGE OF COORDINATION > 0
coordinative == {k \in 1..nrows(df) : coordinations[k] > 0}

RECURSIVE SumOver(_, _)
SumOver(f, S) ==
    IF S = {} THEN 0 ELSE LET k == CHOOSE k \in S : TRUE IN f[k] + SumOver(f, S \ {k})

\* C2 as claimed: the conditional mean is printed only when some row has a
\* percentage of coordination > 0; with no such row the statement fails.
C2_ConditionalMeanFailsOnNoMatch ==
    MPrinted => coordinative # {}

\* C2 as amended: the conditional mean never fails: with no row whose percentage of
\* coordination is > 0 it is NaN, also for a table that has rows; otherwise it is the
\* sum of the degree of tacit collusion over those rows divided by their number.
C2_ConditionalMeanNaNOnNoMatch ==
    MPrinted =>
        /\ err = "none"
        /\ coordinative = {} => means.conditional = NaN
        /\ coordinative # {} =>
              /\ means.conditional # NaN
              /\ means.conditional[1] * Cardinality(coordinative) =
                     SumOver(degrees, coordinative) * means.conditional[2]

C2_Witness ==
    /\ MPrinted
    /\ nrows(df) = 2
    /\ coordinative = {}
    /\ means.conditional = NaN
    /\ RatIs(means.degree, 2)

\* C7 as claimed: OLS returns a result only when x and y have the same length and
\* that length is at least 2.
C7_OlsNeedsTwoPoints ==
    RFitted => (Len(x.data[THETA]) = Len(y.values) /\ Len(y.values) >= 2)

\* C7 as amended: x and y are columns of one table, so they always have the same
\* length; OLS fails only for a table without rows and returns a result for every
\* length of at least 1, one observation included.
C7_OlsNeedsOnePoint ==
    /\ (script = "analyze_theta" /\ pc \in {"r_fit", "r_print"})
          => (Len(x.data[THETA]) = Len(y.values) /\ Len(y.values) = nrows(df))
    /\ RFitted => (err = "none" /\ nrows(df) >= 1 /\ result.nobs = nrows(df))
    /\ (script = "analyze_theta" /\ err # "none")
          => (pc = "halted" /\ err = "ValueError" /\ nrows(df) = 0 /\ result = Unset)
    /\ (script = "analyze_theta" /\ pc = "r_fit") => (err = "none" /\ result = Unset)

C7_Witness ==
    /\ RFitted
    /\ nrows(df) = 1
    /\ result.nobs = 1
    /\ thetas = <<0>>
    /\ RatIs(result.params["const"], degrees[1])

Intercepts == (0 - 9)..12
Slopes == (0 - 3)..3

exact_line(a, b) ==
    /\ nrows(df) >= 2
    /\ \E i, j \in 1..nrows(df) : thetas[i] # thetas[j]
    /\ \A k \in 1..nrows(df) : degrees[k] = a + b * thetas[k]

\* C9 as claimed: on points that lie exactly on the line y = a + b*x, with x not
\* constant, OLS returns intercept a, slope b and R2 = 1.
C9_ExactLineEveryslope ==
    RFitted =>
        \A a \in Intercepts, b \in Slopes :
            exact_line(a, b) =>
                /\ RatIs(result.params["const"], a)
                /\ RatIs(result.params[THETA], b)
                /\ RatIs(result.rsquared, 1)

\* C9 as amended: on such points OLS returns intercept a and slope b, and R2 = 1
\* when b is not 0; when b = 0 (y constant) the total sum of squares is 0 and
\* R2 = 1 - 0/0 is not a number.
C9_ExactLine ==
    RFitted =>
        \A a \in Intercepts, b \in Slopes :
            exact_line(a, b) =>
                /\ DOMAIN result.params = {"const", THETA}
                /\ RatIs(result.params["const"], a)
                /\ RatIs(result.params[THETA], b)
                /\ b # 0 => RatIs(result.rsquared, 1)
                /\ b = 0 => result.rsquared = NaN

C9_Witness ==
    /\ RFitted
    /\ thetas = <<0, 1, 2>>
    /\ degrees = <<3, 2, 1>>
    /\ RatIs(result.params["const"], 3)
    /\ RatIs(result.params[THETA], 0 - 1)
    /\ RatIs(result.rsquared, 1)

---------------------------------------------------------------------------
(* trend.py and deviations.py: one figure per treatment *)

MaxPeriods == 4
ColumnsForThirdFirm == 7             \* len(df.columns) > 7
NashPeriod == 3                      \* .get(3)
periods_start == 9900
periods_end == 10000

\* the treatment lists the loop is run on: the list of the scripts, and lists with a
\* name whose character at index 4 is neither P nor Q, or that has no index 4
TreatmentLists ==
    { TreatmentsWithSize,
      << <<"S", "I", "M", "-", "Q">>, <<"S", "E", "Q", "-", "P">> >>,
      << <<"S", "I", "M", "-", "P", "-", "2">>, <<"S", "I", "M", "-", "X", "-", "2">>,
         <<"S", "I", "M", "-", "Q", "-", "2">> >>,
      << <<"S", "I", "M", "P", "-", "2">>, <<"S", "I", "M", "-", "Q", "-", "2">> >>,
      << <<"S", "E", "Q", "-", "Q", "-", "3">>, <<"S", "E", "Q">>,
         <<"S", "I", "M", "-", "P", "-", "3">> >> }

\* Python's treatment[4], on the 1-based sequence of the characters
index_four_mut(treatment) == treatment[4]

index_four(treatment) == treatment[5]

of_firm(variable, i) ==
    variable \o (IF i = 1 THEN " of firm 1" ELSE IF i = 2 THEN " of firm 2" ELSE " of firm 3")

\* A file of the time series: some of the columns Period and <variable> of firm 1..3,
\* then other columns; n lines
read_csv_series(variable, has, others, n) ==
    LET named == SelectSeq(<<"Period", of_firm(variable, 1), of_firm(variable, 2),
                             of_firm(variable, 3)>>, LAMBDA c : c \in has)
        cols == named \o [k \in 1..others |->
                            IF k = 1 THEN "Profit of firm 1" ELSE IF k = 2 THEN "Profit of firm 2"
                            ELSE IF k = 3 THEN "Profit of firm 3" ELSE IF k = 4 THEN "State"
                            ELSE "Action"]
    IN  [columns |-> cols,
         index |-> RangeIndex(n),
         dtype |-> [c \in Range(cols) |-> IF n = 0 THEN "object" ELSE "float64"],
         data |-> [c \in Range(cols) |->
                      [r \in 1..n |-> Num(10 * (CHOOSE j \in DOMAIN cols : cols[j] = c) + r)]]]

SeriesFrames(variable) ==
    { read_csv_series(variable, has, others, n) :
        has \in SUBSET {"Period", of_firm(variable, 1), of_firm(variable, 2),
                        of_firm(variable, 3)},
        others \in {3, 4, 5},
        n \in 0..MaxPeriods }

Scalar(v) == [scalar |-> v]

\* series.get(label): the value at the label, or None when the series has no such label
series_get(series, label) ==
    IF \E k \in DOMAIN series.index : series.index[k] = label
      THEN Scalar(series.values[CHOOSE k \in DOMAIN series.index : series.index[k] = label])
      ELSE None

\* series[a:b], by position
series_slice(series, a, b) ==
    [index |-> slice(series.index, a, b), values |-> slice(series.values, a, b),
     dtype |-> series.dtype]

Scatter(xv, yv) == [type |-> "scatter", x |-> xv, y |-> yv]

TrInit ==
    /\ script \in {"trend", "deviations"} /\ pc = "dispatch"
    /\ err = "none"
    /\ treatments \in TreatmentLists /\ t = 1
    /\ df = Unset /\ x = Unset /\ y = Unset /\ result = Unset /\ means = Unset
    /\ coordinative_runs = Unset
    /\ boxplots = <<>>
    /\ TrIdle /\ QIdle /\ BIdle

TrFrame == <<script, qVars, bVars, boxplots, treatments, x, result, means, coordinative_runs>>
TrScript == script \in {"trend", "deviations"}

\* trend.py lines 12-20, deviations.py lines 11-19
TDispatch ==
    /\ TrScript /\ pc = "dispatch" /\ t <= Len(treatments)
    /\ IF Len(treatments[t]) < 5
         THEN /\ err' = "IndexError" /\ pc' = "halted"
              /\ UNCHANGED independent_variable_english
         ELSE IF index_four(treatments[t]) = "P"
         THEN /\ independent_variable_english' = "Price"
              /\ pc' = "read" /\ err' = err
         ELSE IF index_four(treatments[t]) = "Q"
         THEN /\ independent_variable_english' = "Quantity"
              /\ pc' = "read" /\ err' = err
         ELSE /\ err' = "Invalid treatment!" /\ pc' = "halted"
              /\ UNCHANGED independent_variable_english
    /\ UNCHANGED <<TrFrame, t, df, y, nash_equilibrium, fig, shown>>

\* trend.py line 22, deviations.py line 21
TRead ==
    /\ TrScript /\ pc = "read"
    /\ df' \in SeriesFrames(independent_variable_english)
    /\ pc' = IF script = "deviations" THEN "nash" ELSE "trace1"
    /\ UNCHANGED <<TrFrame, err, t, y, independent_variable_english, nash_equilibrium,
                   fig, shown>>

\* deviations.py line 22
DNash ==
    /\ script = "deviations" /\ pc = "nash"
    /\ LET column == get(df, of_firm(independent_variable_english, 1))
       IN  IF column = None
             THEN /\ err' = "AttributeError" /\ pc' = "halted"
                  /\ UNCHANGED nash_equilibrium
             ELSE /\ nash_equilibrium' = series_get(column, NashPeriod)
                  /\ pc' = "trace1" /\ err' = err
    /\ UNCHANGED <<TrFrame, t, df, y, independent_variable_english, fig, shown>>

\* the trace of firm i: deviations.py plots the column, trend.py its periods
\* periods_start to periods_end
firm_trace(i) ==
    LET xv == get(df, "Period")
        column == get(df, of_firm(independent_variable_english, i))
    IN  IF script = "deviations" THEN [error |-> "none", trace |-> Scatter(xv, column)]
        ELSE IF column = None THEN [error |-> "TypeError"]
        ELSE [error |-> "none",
              trace |-> Scatter(xv, series_slice(column, periods_start, periods_end))]

\* trend.py lines 24-31, deviations.py lines 24-31: a new figure and the trace of firm 1
TTrace1 ==
    /\ TrScript /\ pc = "trace1"
    /\ LET made == firm_trace(1)
       IN  IF made.error = "none"
             THEN fig' = <<made.trace>> /\ pc' = "trace2" /\ err' = err
             ELSE fig' = <<>> /\ pc' = "halted" /\ err' = made.error
    /\ UNCHANGED <<TrFrame, t, df, y, independent_variable_english, nash_equilibrium, shown>>

\* trend.py lines 32-36, deviations.py lines 32-36
TTrace2 ==
    /\ TrScript /\ pc = "trace2"
    /\ LET made == firm_trace(2)
       IN  IF made.error = "none"
             THEN /\ fig' = Append(fig, made.trace) /\ err' = err
                  /\ pc' = IF script = "deviations" THEN "annotate" ELSE "trace3"
             ELSE fig' = fig /\ pc' = "halted" /\ err' = made.error
    /\ UNCHANGED <<TrFrame, t, df, y, independent_variable_english, nash_equilibrium, shown>>

\* deviations.py lines 37-42
DAnnotate ==
    /\ script = "deviations" /\ pc = "annotate"
    /\ fig' = Append(fig, [type |-> "annotation", x |-> "t", y |-> nash_equilibrium])
    /\ pc' = "trace3"
    /\ UNCHANGED <<TrFrame, err, t, df, y, independent_variable_english, nash_equilibrium,
                   shown>>

\* trend.py lines 37-42, deviations.py lines 43-48
TTrace3 ==
    /\ TrScript /\ pc = "trace3"
    /\ IF Len(df.columns) > ColumnsForThirdFirm
         THEN LET made == firm_trace(3)
              IN  IF made.error = "none"
                    THEN /\ fig' = Append(fig, made.trace) /\ err' = err
                         /\ pc' = IF script = "deviations" THEN "nash_line" ELSE "show"
                    ELSE fig' = fig /\ pc' = "halted" /\ err' = made.error
         ELSE /\ fig' = fig /\ err' = err
              /\ pc' = IF script = "deviations" THEN "nash_line" ELSE "show"
    /\ UNCHANGED <<TrFrame, t, df, y, independent_variable_english, nash_equilibrium, shown>>

\* deviations.py lines 49-55: the line at the Nash value, as long as the Period column;
\* np.empty leaves the array as the memory was, and only fill() gives it its values
DNashLine ==
    /\ script = "deviations" /\ pc = "nash_line"
    /\ LET period == get(df, "Period")
       IN  IF period = None
             THEN /\ err' = "AttributeError" /\ pc' = "halted"
                  /\ UNCHANGED <<y, fig>>
           ELSE IF nash_equilibrium = None
             THEN /\ err' = "TypeError" /\ pc' = "halted"
                  /\ y' \in { [k \in DOMAIN period.values |-> v] : v \in {NaN, Num(0)} }
                  /\ UNCHANGED fig
           ELSE /\ y' = [k \in DOMAIN period.values |-> nash_equilibrium.scalar]
                /\ fig' = Append(fig, Scatter(period,
                                   [k \in DOMAIN period.values |-> nash_equilibrium.scalar]))
                /\ pc' = "show" /\ err' = err
    /\ UNCHANGED <<TrFrame, t, df, independent_variable_english, nash_equilibrium, shown>>

\* trend.py lines 43-46, deviations.py lines 56-58
TShow ==
    /\ TrScript /\ pc = "show"
    /\ shown' = Append(shown, treatments[t])
    /\ pc' = "next"
    /\ UNCHANGED <<TrFrame, err, t, df, y, independent_variable_english, nash_equilibrium,
                   fig>>

\* back to the head of the loop: the names of this iteration are bound anew before
\* they are read again
TLoop ==
    /\ TrScript /\ pc = "next"
    /\ t' = t + 1
    /\ df' = Unset /\ y' = Unset /\ fig' = <<>>
    /\ independent_variable_english' = Unset /\ nash_equilibrium' = Unset
    /\ pc' = "dispatch"
    /\ UNCHANGED <<TrFrame, err, shown>>

TEnd ==
    /\ TrScript /\ pc = "dispatch" /\ t > Len(treatments)
    /\ pc' = "done"
    /\ UNCHANGED <<TrFrame, err, t, df, y, independent_variable_english, nash_equilibrium,
                   fig, shown>>

TrNext ==
    \/ TDispatch \/ TRead \/ DNash \/ TTrace1 \/ TTrace2 \/ DAnnotate \/ TTrace3
    \/ DNashLine \/ TShow \/ TLoop \/ TEnd

SpecTreatments == TrInit /\ [][TrNext]_vars

---------------------------------------------------------------------------
(* The claims on trend.py and deviations.py *)

has_column(c) == c \in Range(df.columns)
firm_column(i) == of_firm(independent_variable_english, i)

\* the statements of one iteration after the dispatch
InIteration ==
    pc \in {"read", "nash", "trace1", "trace2", "annotate", "trace3", "nash_line", "show", "next"}

\* C6 as claimed: the lookups of the first trace are passed only with the columns
\* Period and <variable> of firm 1 in the table; an absent one fails at the lookup,
\* and no trace is built from a placeholder.
C6_LookupFailsOnAbsentColumn ==
    TrScript /\ pc = "trace2" => has_column("Period") /\ has_column(firm_column(1))

\* C6 as amended: a lookup of an absent column fails nowhere, it yields None, and None
\* is handed on: the trace of a firm has None as x exactly when the table has no
\* column Period, and in deviations.py None as y exactly when it has no column of that
\* firm. The only errors are an AttributeError or a TypeError of a later step that
\* uses None as a column (.get(3), [start:end], .size) or as the Nash value (fill).
C6_LookupYieldsNonePassedOn ==
    TrScript =>
      /\ err \in {"none", "Invalid treatment!", "IndexError", "AttributeError", "TypeError"}
      /\ \A i \in {1, 2} : Len(fig) >= i =>
            /\ fig[i].type = "scatter"
            /\ (fig[i].x = None) <=> ~has_column("Period")
            /\ (fig[i].y = None) <=> (script = "deviations" /\ ~has_column(firm_column(i)))
            /\ script = "trend" => has_column(firm_column(i))
      /\ pc = "show" /\ Len(df.columns) > ColumnsForThirdFirm =>
            LET third == IF script = "deviations" THEN fig[4] ELSE fig[3]
            IN  /\ (third.x = None) <=> ~has_column("Period")
                /\ (third.y = None) <=> (script = "deviations" /\ ~has_column(firm_column(3)))
      /\ err = "AttributeError" =>
            /\ script = "deviations" /\ pc = "halted"
            /\ \/ ~has_column(firm_column(1)) /\ fig = <<>>
               \/ ~has_column("Period") /\ Len(fig) >= 3
      /\ err = "TypeError" =>
            /\ pc = "halted"
            /\ \/ script = "trend" /\ \E i \in 1..3 : ~has_column(firm_column(i))
               \/ script = "deviations" /\ nash_equilibrium = None /\ has_column("Period")
      /\ pc = "show" /\ script = "deviations" =>
            has_column("Period") /\ has_column(firm_column(1)) /\ nash_equilibrium # None

\* trend.py shows a figure whose traces have None as x: the table has no column Period
C6_Witness ==
    /\ script = "trend" /\ pc = "show" /\ err = "none"
    /\ ~has_column("Period")
    /\ Len(fig) = 3 /\ fig[1].x = None /\ fig[3].x = None

\* C10: an iteration runs with Price exactly when the character at index 4 of its
\* treatment is P and with Quantity exactly when it is Q; any other character there
\* raises 'Invalid treatment!'; nothing runs after an error, so the figures shown are
\* those of the treatments before it; the figures are shown once each, in the order of
\* the list; the list of the scripts never raises the error, and at the end of the
\* loop every treatment of it has been shown.
C10_DispatchOnIndexFour ==
    /\ [](TrScript =>
          /\ InIteration \/ (pc = "halted" /\ err \in {"AttributeError", "TypeError"}) =>
                /\ Len(treatments[t]) >= 5 /\ treatments[t][5] \in {"P", "Q"}
                /\ (independent_variable_english = "Price") <=> treatments[t][5] = "P"
                /\ (independent_variable_english = "Quantity") <=> treatments[t][5] = "Q"
          /\ err = "Invalid treatment!" =>
                /\ pc = "halted"
                /\ Len(treatments[t]) >= 5 /\ treatments[t][5] \notin {"P", "Q"}
                /\ shown = SubSeq(treatments, 1, t - 1)
          /\ pc # "dispatch" /\ t <= Len(treatments) /\ Len(treatments[t]) >= 5
               /\ treatments[t][5] \notin {"P", "Q"} => err = "Invalid treatment!"
          /\ shown = SubSeq(treatments, 1, Len(shown))
          /\ Len(shown) = IF pc = "next" THEN t ELSE t - 1
          /\ treatments = TreatmentsWithSize =>
                /\ err \notin {"Invalid treatment!", "IndexError"}
                /\ pc = "done" => shown = treatments /\ err = "none")
    /\ [][TrScript => err = "none"]_vars

\* the second treatment has another character at index 4: the loop has halted on it
\* after the figure of the first
C10_Witness ==
    /\ TrScript /\ err = "Invalid treatment!" /\ pc = "halted"
    /\ t = 2 /\ shown = <<treatments[1]>> /\ Len(treatments) = 3
    /\ treatments[2][5] = "X"

====
